---- MODULE Spec2Model ----
(***************************************************************************)
(* A state-machine model of src/libslic3r/Optimizer.hpp: the Optimizer     *)
(* front door, the NLopt bindings (single algorithm and global+local), the *)
(* objective adapter optfunc and the RAII wrapper of the solver context.   *)
(*                                                                         *)
(* The NLopt library itself (nlopt_create, nlopt_set_*, nlopt_optimize,    *)
(* nlopt_force_stop, nlopt_destroy) is the environment.  Its contexts are  *)
(* the entries of `heap`; a run proposes points inside the installed       *)
(* bounds, calls the installed callback with the installed data pointer,   *)
(* stops evaluating once a forced stop was requested on the running        *)
(* context and reports one of the nlopt_result codes.                      *)
(*                                                                         *)
(* Doubles are abstracted to the integers -MaxVal..MaxVal; NaN is one      *)
(* value outside that range.  C arrays are functions over 0..n-1.          *)
(***************************************************************************)
EXTENDS Integers, Sequences, FiniteSets, TLC

\* ------------------------------------------------------------------ bounds
MaxN == 2
MaxVal == 1
MaxEvals == 2
MaxCalls == 2

\* ------------------------------------------------------------------ values
MinVal == 0 - MaxVal
Val == MinVal..MaxVal
\* std::nan(""): the one double that is no ordinary value
NaN == MaxVal + 1
isnan(x) == x = NaN
Doubles == Val \cup {NaN}

\* std::numeric_limits<double>::min(): the smallest POSITIVE double
DBL_MIN == 1
\* std::numeric_limits<double>::max()
DBL_MAX == MaxVal

Dims == 1..MaxN
Idx(N) == 0..(N - 1)

\* ------------------------------------------------------------------ Bound
Bound(min, max) == [m_min |-> min, m_max |-> max]
DefaultBound == Bound(DBL_MIN, DBL_MAX)

\* ------------------------------------------------------------------ StopCriteria
\* m_stop_condition is a std::function<bool()>.  The predicates enumerated are
\* "true once k objective evaluations of the run have completed"; k > MaxEvals
\* is the default predicate, which is never true.
StopNever == MaxEvals + 1
stop_condition(cr, evals) == evals >= cr.m_stop_condition

StopCriteria(a, rl, s, k, it) ==
    [m_abs_score_diff |-> a, m_rel_score_diff |-> rl, m_stop_score |-> s,
     m_stop_condition |-> k, m_max_iterations |-> it]
DefaultStopCriteria == StopCriteria(NaN, NaN, NaN, StopNever, 0)

AllStopCriteria ==
    {StopCriteria(a, rl, s, StopNever, it) :
        a \in Doubles, rl \in Doubles, s \in Doubles, it \in 0..MaxEvals}

\* ------------------------------------------------------------------ algorithm tags
NLoptAlg(alg) == [t |-> "NLoptAlg", alg |-> alg]
NLoptAlgComb(gl_alg, lc_alg) == [t |-> "NLoptAlgComb", glob |-> gl_alg, loc |-> lc_alg]
NLoptOpt(M) == [t |-> "NLoptOpt", m |-> M]
Unregistered == [t |-> "Unregistered"]

AlgNLoptGenetic == NLoptAlgComb("NLOPT_GN_ESCH", "NLOPT_LN_NELDERMEAD")
AlgNLoptSubplex == NLoptAlg("NLOPT_LN_SBPLX")
AlgNLoptSimplex == NLoptAlg("NLOPT_LN_NELDERMEAD")
Catalog == {AlgNLoptGenetic, AlgNLoptSubplex, AlgNLoptSimplex}

\* The template argument of the two presets.
DefaultGlobalOptimizer == AlgNLoptGenetic
DefaultLocalOptimizer == AlgNLoptSubplex

\* Which class template Optimizer<Method> names: the partial specialization
\* matches Method = detail::NLoptOpt<M> and nothing else; every other Method
\* is the primary template, whose constructor holds the static_assert.
OptimizerTemplate(Method) ==
    IF Method.t = "NLoptOpt" THEN "nlopt" ELSE "generic"

StaticAssertMessage == "Optimizer unimplemented for given method!"

\* The template arguments enumerated: each catalog tag as the aliases pass
\* it, each catalog tag wrapped in the binding, and a tag no binding knows.
Methods == Catalog \cup {Unregistered} \cup {NLoptOpt(M) : M \in Catalog}

\* ------------------------------------------------------------------ Result
\* nlopt_result, as <nlopt.h> numbers it
NLOPT_FAILURE == -1
NLOPT_INVALID_ARGS == -2
NLOPT_FORCED_STOP == -5
NLOPT_SUCCESS == 1
NLOPT_MAXEVAL_REACHED == 5

Result(code, opt, sc, assigned) ==
    [resultcode |-> code, optimum |-> opt, score |-> sc, score_assigned |-> assigned]

\* ------------------------------------------------------------------ objective adapter
\* c[i] on a C array of n values.  An index outside 0..n-1 reads past the end
\* of the array: the value found there is oob, whatever the memory holds.
ReadAt(c, i, oob) == IF i \in DOMAIN c THEN c[i] ELSE oob

\* to_tuple_<I, N, T, C>::call: the tuple (c[I], c[I-1], ..., c[1]); the
\* specialization for I = 0 ends the recursion with the empty tuple.
RECURSIVE to_tuple_(_, _, _, _)
to_tuple_(I, N, c, oob) ==
    IF I = 0 THEN <<>>
    ELSE <<ReadAt(c, I, oob)>> \o to_tuple_(I - 1, N, c, oob)

\* carray_tuple<N>(v) starts the recursion at I = N.
carray_tuple(N, v, oob) == to_tuple_(N, N, v, oob)

\* The indices of c that to_tuple_<I, N, T, C>::call reads.
RECURSIVE to_tuple_reads(_)
to_tuple_reads(I) == IF I = 0 THEN {} ELSE {I} \cup to_tuple_reads(I - 1)

\* The caller's objective, applied to the argument tuple by std::apply.  The
\* one enumerated is order sensitive: func(a1, ..., ak) = 1*a1 + ... + k*ak.
RECURSIVE func(_)
func(args) ==
    IF args = <<>> THEN 0
    ELSE Len(args) * args[Len(args)] + func(SubSeq(args, 1, Len(args) - 1))

NullHandle == 0

\* A variant of optfunc that polls stop_condition after invoking the objective
\* instead of before it: the evaluation being made already counts.
optfunc_stop_after_func(N, params, data, cr, evals, oob) ==
    LET stop   == stop_condition(cr, evals + 1)
        funval == carray_tuple(N, params, oob)
    IN  [events |-> IF stop THEN <<"func", "stop_condition", "nlopt_force_stop">>
                            ELSE <<"func", "stop_condition">>,
         stop   |-> stop,
         target |-> IF stop THEN data.opt ELSE NullHandle,
         args   |-> funval,
         score  |-> func(funval)]

\* optfunc<Fn, N>(n, params, gradient, data): data is the TData tuple as the
\* read through the void pointer yields it, cr the m_stopcr of std::get<1>.
\* The outcome names, in order, what the call did, the context the forced stop
\* was requested on, the arguments the objective got and the score returned.
optfunc(N, params, data, cr, evals, oob) ==
    LET stop   == stop_condition(cr, evals)
        funval == carray_tuple(N, params, oob)
    IN  [events |-> IF stop THEN <<"stop_condition", "nlopt_force_stop", "func">>
                            ELSE <<"stop_condition", "func">>,
         stop   |-> stop,
         target |-> IF stop THEN data.opt ELSE NullHandle,
         args   |-> funval,
         score  |-> func(funval)]

\* ------------------------------------------------------------------ solver contexts
\* nlopt_create(alg, n): a fresh context with the solver's defaults.  A setting
\* is <<>> until its nlopt_set_* call is made, and <<v>> afterwards.
nlopt_create(alg, n, id) ==
    [alg |-> alg, n |-> n, call |-> id, live |-> TRUE, destroyed |-> 0,
     lb |-> <<>>, ub |-> <<>>,
     ftol_abs |-> <<>>, ftol_rel |-> <<>>, stopval |-> <<>>, maxeval |-> <<>>,
     objective |-> "none", f_data |-> 0, installs |-> 0,
     local_opt |-> NullHandle, force_stop |-> FALSE]

\* The solver world the binding acts on: the contexts, the record of the API
\* calls of the current optimize(), and every TData tuple created so far.
Logged(w, op, h) == [w EXCEPT !.log = Append(@, <<op, h>>)]

nlopt_set_lower_bounds(w, h, lb) ==
    Logged([w EXCEPT !.heap[h].lb = <<lb>>], "nlopt_set_lower_bounds", h)
nlopt_set_upper_bounds(w, h, ub) ==
    Logged([w EXCEPT !.heap[h].ub = <<ub>>], "nlopt_set_upper_bounds", h)
nlopt_set_ftol_abs(w, h, v) ==
    Logged([w EXCEPT !.heap[h].ftol_abs = <<v>>], "nlopt_set_ftol_abs", h)
nlopt_set_ftol_rel(w, h, v) ==
    Logged([w EXCEPT !.heap[h].ftol_rel = <<v>>], "nlopt_set_ftol_rel", h)
nlopt_set_stopval(w, h, v) ==
    Logged([w EXCEPT !.heap[h].stopval = <<v>>], "nlopt_set_stopval", h)
nlopt_set_maxeval(w, h, v) ==
    Logged([w EXCEPT !.heap[h].maxeval = <<v>>], "nlopt_set_maxeval", h)
nlopt_set_min_objective(w, h, f_data) ==
    Logged([w EXCEPT !.heap[h].objective = "min", !.heap[h].f_data = f_data,
                     !.heap[h].installs = @ + 1], "nlopt_set_min_objective", h)
nlopt_set_max_objective(w, h, f_data) ==
    Logged([w EXCEPT !.heap[h].objective = "max", !.heap[h].f_data = f_data,
                     !.heap[h].installs = @ + 1], "nlopt_set_max_objective", h)
nlopt_set_local_optimizer(w, h, local) ==
    Logged([w EXCEPT !.heap[h].local_opt = local], "nlopt_set_local_optimizer", h)

\* nlopt_force_stop(opt): sets the flag of a live context, nothing otherwise.
nlopt_force_stop(hp, h) ==
    IF h \in DOMAIN hp /\ hp[h].live THEN [hp EXCEPT ![h].force_stop = TRUE] ELSE hp

\* A variant of ~NLopt that leaves the context alone.
NLopt_dtor_leak(hp, h) == hp

\* nlopt_destroy(opt): the context's memory is freed; what is left of it is
\* that it was destroyed, how often, and which optimize() call created it.
nlopt_destroy(c) ==
    [nlopt_create("freed", 0, c.call) EXCEPT !.live = FALSE,
                                             !.destroyed = c.destroyed + 1]

\* ~NLopt(): nlopt_destroy(ptr)
NLopt_dtor(hp, h) == [hp EXCEPT ![h] = nlopt_destroy(@)]

\* NLopt nl{alg, N}: ptr = nlopt_create(alg, N); the handle is the new
\* context's place in the heap.
NLopt_ctor(w, alg, N, id) ==
    Logged([w EXCEPT !.heap = Append(@, nlopt_create(alg, N, id))],
           "nlopt_create", Len(w.heap) + 1)

\* nlopt_srand(seed): seeds the one pseudo-random generator of the library,
\* which every context of the process draws from.  The generator's state is
\* <<>> while nobody seeded it and <<seed>> afterwards.
nlopt_srand(s) == <<s>>

\* The algorithms whose runs draw from the generator.
Stochastic(alg) == alg = "NLOPT_GN_ESCH"

\* ------------------------------------------------------------------ set_up
\* A variant of the bounds loop that reads bounds[0] for every dimension.
set_up_bounds_first(w, h, bounds, N) ==
    LET lb == [i \in Idx(N) |-> bounds[0].m_min]
        ub == [i \in Idx(N) |-> bounds[0].m_max]
    IN  nlopt_set_upper_bounds(nlopt_set_lower_bounds(w, h, lb), h, ub)

\* set_up, lines 225-233: lb[i] = bounds[i].min(), ub[i] = bounds[i].max()
set_up_bounds(w, h, bounds, N) ==
    LET lb == [i \in Idx(N) |-> bounds[i].m_min]
        ub == [i \in Idx(N) |-> bounds[i].m_max]
    IN  nlopt_set_upper_bounds(nlopt_set_lower_bounds(w, h, lb), h, ub)

\* A variant of the criteria translation that takes a threshold as set only
\* when it is positive.
set_up_criteria_positive(w, h, cr) ==
    LET abs_diff == cr.m_abs_score_diff
        rel_diff == cr.m_rel_score_diff
        stopval  == cr.m_stop_score
        w1 == IF ~isnan(abs_diff) /\ abs_diff > 0
              THEN nlopt_set_ftol_abs(w, h, abs_diff) ELSE w
        w2 == IF ~isnan(rel_diff) THEN nlopt_set_ftol_rel(w1, h, rel_diff) ELSE w1
        w3 == IF ~isnan(stopval) THEN nlopt_set_stopval(w2, h, stopval) ELSE w2
    IN  IF cr.m_max_iterations > 0
        THEN nlopt_set_maxeval(w3, h, cr.m_max_iterations) ELSE w3

\* set_up, lines 235-243
set_up_criteria(w, h, cr) ==
    LET abs_diff == cr.m_abs_score_diff
        rel_diff == cr.m_rel_score_diff
        stopval  == cr.m_stop_score
        w1 == IF ~isnan(abs_diff) THEN nlopt_set_ftol_abs(w, h, abs_diff) ELSE w
        w2 == IF ~isnan(rel_diff) THEN nlopt_set_ftol_rel(w1, h, rel_diff) ELSE w1
        w3 == IF ~isnan(stopval) THEN nlopt_set_stopval(w2, h, stopval) ELSE w2
    IN  IF cr.m_max_iterations > 0
        THEN nlopt_set_maxeval(w3, h, cr.m_max_iterations) ELSE w3

\* TData<Func> data = std::make_tuple(&func, this, nl.ptr): a local of set_up,
\* alive while set_up executes.  A pointer to it is its place in frames.
MakeTData(h) == [fn |-> "func", self |-> "this", opt |-> h, live |-> TRUE]

\* A variant of the objective installation that ignores the direction.
set_up_objective_min(w, h, dir) ==
    LET w1 == [w EXCEPT !.frames = Append(@, MakeTData(h))]
    IN  nlopt_set_min_objective(w1, h, Len(w1.frames))

\* set_up, lines 245-252.  dir is the value the read of m_dir yields; a value
\* that is neither enumerator matches no case and installs nothing.
set_up_objective(w, h, dir) ==
    LET w1   == [w EXCEPT !.frames = Append(@, MakeTData(h))]
        data == Len(w1.frames)
    IN  CASE dir = "MIN" -> nlopt_set_min_objective(w1, h, data)
          [] dir = "MAX" -> nlopt_set_max_objective(w1, h, data)
          [] OTHER -> w1

\* set_up(nl, func, bounds): the three parts in order; on return the local
\* data is gone while the context keeps the pointer to it.
set_up(w, h, cr, dir, bounds, N) ==
    LET w1 == set_up_bounds(w, h, bounds, N)
        w2 == set_up_criteria(w1, h, cr)
        w3 == set_up_objective(w2, h, dir)
    IN  [w3 EXCEPT !.frames[Len(w3.frames)].live = FALSE]

\* ------------------------------------------------------------------ optimize
\* What optimize(func, initvals, bounds) has done when it calls
\* nlopt_optimize: the world, the contexts it owns and the one it runs.
Entered(w, glob, loc, runs) == [w |-> w, glob |-> glob, loc |-> loc, runs |-> runs]

\* NLoptOpt<NLoptAlg<alg>>::optimize, lines 273-276
optimize_single(w, alg, cr, dir, bounds, N, id) ==
    LET w1 == NLopt_ctor(w, alg, N, id)
        nl == Len(w1.heap)
        w2 == set_up(w1, nl, cr, dir, bounds, N)
    IN  Entered(Logged(w2, "nlopt_optimize", nl), nl, NullHandle, nl)

\* A variant of the composed optimize that runs the local context.
optimize_comb_runs_local(w, glob, loc, cr, dir, bounds, N, id) ==
    LET w1 == NLopt_ctor(w, glob, N, id)
        nl_glob == Len(w1.heap)
        w2 == NLopt_ctor(w1, loc, N, id)
        nl_loc == Len(w2.heap)
        w3 == set_up(w2, nl_glob, cr, dir, bounds, N)
        w4 == set_up(w3, nl_loc, cr, dir, bounds, N)
        w5 == nlopt_set_local_optimizer(w4, nl_glob, nl_loc)
    IN  Entered(Logged(w5, "nlopt_optimize", nl_loc), nl_glob, nl_loc, nl_loc)

\* NLoptOpt<NLoptAlgComb<glob, loc>>::optimize, lines 299-305
optimize_comb(w, glob, loc, cr, dir, bounds, N, id) ==
    LET w1 == NLopt_ctor(w, glob, N, id)
        nl_glob == Len(w1.heap)
        w2 == NLopt_ctor(w1, loc, N, id)
        nl_loc == Len(w2.heap)
        w3 == set_up(w2, nl_glob, cr, dir, bounds, N)
        w4 == set_up(w3, nl_loc, cr, dir, bounds, N)
        w5 == nlopt_set_local_optimizer(w4, nl_glob, nl_loc)
    IN  Entered(Logged(w5, "nlopt_optimize", nl_glob), nl_glob, nl_loc, nl_glob)

\* m_opt.optimize(...) for the binding the tag M selects
optimize_enter(M, w, cr, dir, bounds, N, id) ==
    IF M.t = "NLoptAlgComb"
    THEN optimize_comb(w, M.glob, M.loc, cr, dir, bounds, N, id)
    ELSE optimize_single(w, M.alg, cr, dir, bounds, N, id)

\* A variant of optimize(nl, initvals) that returns the initial point.
optimize_run_keeps_init(initvals, out, u) ==
    Result(out.code, initvals,
           IF out.minf = <<>> THEN u ELSE out.minf[1], out.minf # <<>>)

\* A variant of optimize(nl, initvals) that reports a failed run as a success.
optimize_run_recovers(initvals, out, u) ==
    Result(IF out.code < 0 THEN NLOPT_SUCCESS ELSE out.code,
           IF out.x = <<>> THEN initvals ELSE out.x[1],
           IF out.minf = <<>> THEN u ELSE out.minf[1],
           out.minf # <<>>)

\* optimize(NLopt &nl, initvals), lines 258-263: r is declared without an
\* initializer, r.optimum = initvals, then nlopt_optimize writes the point
\* buffer and the score where it has a point to report (out.x, out.minf) and
\* its return value becomes r.resultcode.  u is what r.score holds when the
\* solver wrote nothing to it.
optimize_run(initvals, out, u) ==
    Result(out.code,
           IF out.x = <<>> THEN initvals ELSE out.x[1],
           IF out.minf = <<>> THEN u ELSE out.minf[1],
           out.minf # <<>>)

\* The destructors at the end of optimize(func, initvals, bounds): nl, or
\* nl_loc and then nl_glob (the reverse of their declaration).
optimize_exit(hp, glob, loc) ==
    IF loc = NullHandle THEN NLopt_dtor(hp, glob)
    ELSE NLopt_dtor(NLopt_dtor(hp, loc), glob)

\* ------------------------------------------------------------------ the solver run
\* nlopt_optimize refuses to start, with NLOPT_INVALID_ARGS, on a context with
\* no objective, with a lower bound above its upper bound, or with the point
\* buffer outside the bounds.
EntryValid(c, x) ==
    /\ c.objective # "none"
    /\ c.lb # <<>> /\ c.ub # <<>>
    /\ \A i \in Idx(c.n) : c.lb[1][i] <= c.ub[1][i]
                           /\ c.lb[1][i] <= x[i] /\ x[i] <= c.ub[1][i]

\* The points a run proposes lie inside the installed bounds; the ones
\* enumerated are the two corners.
Proposals(c) == {c.lb[1], c.ub[1]}

\* The contexts whose installed callback a run on g may call: g itself and
\* the local optimizer registered on it.
Drivers(hp, g) ==
    {g} \cup (IF hp[g].local_opt = NullHandle THEN {} ELSE {hp[g].local_opt})

Better(kind, a, b) == IF kind = "max" THEN a > b ELSE a < b

\* What a read through a pointer to a TData tuple yields.  While the tuple is
\* alive, the tuple.  After set_up returned its stack slot is free: the read
\* finds the tuple still there, or the tuple a later set_up call built in the
\* same slot, or the slot overwritten so that the handle is no context.
DanglingReads(fr, ptr) ==
    IF fr[ptr].live THEN {fr[ptr]}
    ELSE {fr[q] : q \in ptr..Len(fr)} \cup {[fr[ptr] EXCEPT !.opt = NullHandle]}

\* What lies behind the end of the params array.
OobReads == {0, DBL_MAX}

\* What an unassigned double holds.
Indeterminate == {0, DBL_MAX}

\* The values a read of m_dir yields: the enumerator stored, or, when nothing
\* was ever stored, any value of the underlying type.
DirReads(dir) == IF dir = "UNINIT" THEN {"MIN", "MAX", "JUNK"} ELSE {dir}

\* The codes nlopt_optimize may return in the current state of a run on c.
SolverCodes(c, rn, x0) ==
    IF ~EntryValid(c, x0) THEN {NLOPT_INVALID_ARGS}
    ELSE IF c.force_stop THEN {NLOPT_FORCED_STOP}
    ELSE {NLOPT_FAILURE}
         \cup (IF rn.evals >= 1 THEN {NLOPT_SUCCESS} ELSE {})
         \cup (IF c.maxeval # <<>> /\ rn.evals >= c.maxeval[1]
               THEN {NLOPT_MAXEVAL_REACHED} ELSE {})

\* Whether the run on c goes on to another objective evaluation.
MayEvaluate(c, rn, x0) ==
    /\ EntryValid(c, x0)
    /\ ~c.force_stop
    /\ rn.evals < MaxEvals
    /\ (IF c.maxeval = <<>> THEN TRUE ELSE rn.evals < c.maxeval[1])

\* What nlopt_optimize writes back: the best point and score of the run, or
\* nothing when no evaluation was made.
SolverOut(code, rn) ==
    [code |-> code,
     x    |-> IF rn.best = <<>> THEN <<>> ELSE <<rn.best[1].x>>,
     minf |-> IF rn.best = <<>> THEN <<>> ELSE <<rn.best[1].f>>]

\* ------------------------------------------------------------------ inputs
Uniform(N, b) == [i \in Idx(N) |-> b]
Staggered(N) ==
    [i \in Idx(N) |-> IF i = 0 THEN Bound(MinVal, 0) ELSE Bound(0, DBL_MAX)]
BoundsInputs(N) ==
    {Uniform(N, b) : b \in {Bound(MinVal, DBL_MAX), DefaultBound,
                            Bound(DBL_MAX, MinVal)}}
        \cup {Staggered(N)}
InitInputs(N) == {[i \in Idx(N) |-> v] : v \in {0, DBL_MAX}}

CriteriaInputs ==
    {DefaultStopCriteria,
     StopCriteria(NaN, NaN, NaN, 1, 0),
     StopCriteria(0, NaN, DBL_MAX, 0, 1)}

SeedInputs == {0, DBL_MAX}

\* ------------------------------------------------------------------ state
VARIABLES
    method,       \* the template argument of Optimizer<Method>
    impl,         \* the class template it names: "none" before instantiation
    pc,           \* start, rejected, idle, running, returned, crashed
    m_stopcr,     \* NLoptOpt::m_stopcr
    m_dir,        \* NLoptOpt::m_dir: UNINIT until set_dir stores MIN or MAX
    lastDirCall,  \* the last of to_min / to_max called: none, to_min, to_max
    heap,         \* the solver contexts ever created, by handle
    frames,       \* the TData tuples ever created, by address
    apilog,       \* the solver API calls of the current optimize(), in order
    ncalls,       \* optimize() calls started
    call,         \* the arguments and contexts of the current optimize()
    run,          \* the progress of the solver run
    lastEval,     \* <<>> or the outcome of the latest adapter invocation
    r,            \* the Result returned
    nlopt_rand,   \* the state of the library's process-wide generator
    seeder,       \* whose seed() set it: none, this Optimizer, another one
    caller_cr,    \* the caller's StopCriteria object, as it is now
    stored        \* the StopCriteria last passed to the constructor or set_criteria

vars == <<method, impl, pc, m_stopcr, m_dir, lastDirCall, heap, frames, apilog,
          ncalls, call, run, lastEval, r, nlopt_rand, seeder, caller_cr, stored>>

\* What the caller holds.
caller == <<caller_cr, stored>>

\* What lives outside this Optimizer instance.
process == <<nlopt_rand, seeder>>

NoCall == [N |-> 0, initvals |-> <<>>, bounds |-> <<>>,
           glob |-> NullHandle, loc |-> NullHandle]
\* h: the context nlopt_optimize was called on; evals: objective evaluations
\* made; first, best: the point and score of the first and of the best one;
\* stopSeen: the evaluation in which stop_condition first returned true;
\* forced, forcedAt: whether, and in which evaluation, a forced stop was
\* requested on h; code: what nlopt_optimize returned (0 while it runs);
\* drew: <<>> or the generator state the run last drew from, and who set it.
NoRun == [h |-> NullHandle, evals |-> 0, best |-> <<>>, first |-> <<>>,
          stopSeen |-> 0, forced |-> FALSE, forcedAt |-> 0, code |-> 0,
          drew |-> <<>>]
NoResult == Result(0, <<>>, 0, FALSE)

Init ==
    /\ method \in Methods
    /\ impl = "none"
    /\ pc = "start"
    /\ m_stopcr = DefaultStopCriteria
    /\ m_dir = "UNINIT"
    /\ lastDirCall = "none"
    /\ heap = <<>>
    /\ frames = <<>>
    /\ apilog = <<>>
    /\ ncalls = 0
    /\ call = NoCall
    /\ run = NoRun
    /\ lastEval = <<>>
    /\ r = NoResult
    /\ nlopt_rand = <<>>
    /\ seeder = "none"
    /\ caller_cr = m_stopcr
    /\ stored = m_stopcr

perCall == <<apilog, call, run, lastEval, r>>

\* Optimizer<Method> opt(stopcr): the primary template's constructor is the
\* static_assert; the specialization's stores stopcr and leaves m_dir alone.
Instantiate ==
    /\ pc = "start"
    /\ impl' = OptimizerTemplate(method)
    /\ IF OptimizerTemplate(method) = "generic"
       THEN pc' = "rejected" /\ UNCHANGED <<m_stopcr, caller_cr, stored>>
       ELSE /\ pc' = "idle"
            /\ caller_cr' \in CriteriaInputs
            /\ m_stopcr' = caller_cr'
            /\ stored' = caller_cr'
    /\ UNCHANGED <<method, m_dir, lastDirCall, heap, frames, ncalls>>
    /\ UNCHANGED perCall
    /\ UNCHANGED process

\* Optimizer::to_min(): m_opt.set_dir(OptDir::MIN)
to_min ==
    /\ pc = "idle"
    /\ m_dir' = "MIN"
    /\ lastDirCall' = "to_min"
    /\ UNCHANGED <<method, impl, pc, m_stopcr, heap, frames, ncalls>>
    /\ UNCHANGED perCall
    /\ UNCHANGED process
    /\ UNCHANGED caller

\* Optimizer::to_max(): m_opt.set_dir(OptDir::MAX)
to_max ==
    /\ pc = "idle"
    /\ m_dir' = "MAX"
    /\ lastDirCall' = "to_max"
    /\ UNCHANGED <<method, impl, pc, m_stopcr, heap, frames, ncalls>>
    /\ UNCHANGED perCall
    /\ UNCHANGED process
    /\ UNCHANGED caller

\* const StopCriteria &get_criteria(): the stored criteria
get_criteria(stopcr) == stopcr

\* A variant of set_criteria that stores nothing.
set_criteria_drops ==
    /\ pc = "idle"
    /\ caller_cr' \in CriteriaInputs
    /\ stored' = caller_cr'
    /\ UNCHANGED <<method, impl, pc, m_stopcr, m_dir, lastDirCall, heap, frames,
                   ncalls>>
    /\ UNCHANGED perCall
    /\ UNCHANGED process

\* Optimizer::set_criteria(cr): m_stopcr = cr, a copy of the caller's object
set_criteria ==
    /\ pc = "idle"
    /\ caller_cr' \in CriteriaInputs
    /\ m_stopcr' = caller_cr'
    /\ stored' = caller_cr'
    /\ UNCHANGED <<method, impl, pc, m_dir, lastDirCall, heap, frames, ncalls>>
    /\ UNCHANGED perCall
    /\ UNCHANGED process

\* Optimizer::optimize(func, initvals, bounds) up to its call of
\* nlopt_optimize: the contexts are created, set up and, for a composed tag,
\* linked.
OptimizeEnter ==
    /\ pc = "idle"
    /\ ncalls < MaxCalls
    /\ \E N \in Dims : \E initvals \in InitInputs(N) : \E bounds \in BoundsInputs(N) :
       \E dir \in DirReads(m_dir) :
          LET e == optimize_enter(method.m,
                                  [heap |-> heap, log |-> <<>>, frames |-> frames],
                                  m_stopcr, dir, bounds, N, ncalls + 1)
          IN  /\ heap' = e.w.heap
              /\ frames' = e.w.frames
              /\ apilog' = e.w.log
              /\ call' = [N |-> N, initvals |-> initvals, bounds |-> bounds,
                          glob |-> e.glob, loc |-> e.loc]
              /\ run' = [NoRun EXCEPT !.h = e.runs]
    /\ ncalls' = ncalls + 1
    /\ pc' = "running"
    /\ lastEval' = <<>>
    /\ r' = NoResult
    /\ UNCHANGED <<method, impl, m_stopcr, m_dir, lastDirCall>>
    /\ UNCHANGED process
    /\ UNCHANGED caller

\* One objective evaluation of the run: the solver proposes a point and calls
\* the callback of the context c with the data pointer installed on c.
SolverEvaluate ==
    /\ pc = "running"
    /\ MayEvaluate(heap[run.h], run, call.initvals)
    /\ \E c \in Drivers(heap, run.h) : \E oob \in OobReads :
          /\ heap[c].objective # "none"
          /\ ~heap[c].force_stop
          /\ \E params \in Proposals(heap[c]) :
             \E data \in DanglingReads(frames, heap[c].f_data) :
                LET o  == optfunc(heap[c].n, params, data, m_stopcr, run.evals, oob)
                    hp == IF o.stop THEN nlopt_force_stop(heap, o.target) ELSE heap
                    p  == [x |-> params, f |-> o.score]
                    kind == heap[run.h].objective
                IN  /\ heap' = hp
                    /\ lastEval' = <<o @@ [ctx |-> c, params |-> params]>>
                    /\ run' = [run EXCEPT
                                 !.evals = @ + 1,
                                 !.first = IF @ = <<>> THEN <<p>> ELSE @,
                                 !.best = IF @ = <<>> \/ Better(kind, o.score, @[1].f)
                                          THEN <<p>> ELSE @,
                                 !.stopSeen = IF @ = 0 /\ o.stop THEN run.evals + 1 ELSE @,
                                 !.forced = hp[run.h].force_stop,
                                 !.forcedAt = IF hp[run.h].force_stop
                                              THEN run.evals + 1 ELSE @,
                                 !.drew = IF Stochastic(heap[run.h].alg)
                                          THEN <<[state |-> nlopt_rand, by |-> seeder]>>
                                          ELSE @]
    /\ UNCHANGED <<method, impl, pc, m_stopcr, m_dir, lastDirCall, frames, apilog,
                   ncalls, call, r>>
    /\ UNCHANGED process
    /\ UNCHANGED caller

\* The same call of the callback when the freed stack slot no longer holds a
\* callable objective pointer or a binding: the process dies in the callback.
AdapterCrash ==
    /\ pc = "running"
    /\ MayEvaluate(heap[run.h], run, call.initvals)
    /\ \E c \in Drivers(heap, run.h) :
          /\ heap[c].objective # "none"
          /\ ~frames[heap[c].f_data].live
    /\ pc' = "crashed"
    /\ UNCHANGED <<method, impl, m_stopcr, m_dir, lastDirCall, heap, frames, apilog,
                   ncalls, call, run, lastEval, r>>
    /\ UNCHANGED process
    /\ UNCHANGED caller

\* nlopt_optimize returns, optimize(nl, initvals) returns r, the destructors
\* of the NLopt locals run and optimize(func, initvals, bounds) returns.
OptimizeReturn ==
    /\ pc = "running"
    /\ \E code \in SolverCodes(heap[run.h], run, call.initvals) :
       \E u \in Indeterminate :
          /\ r' = optimize_run(call.initvals, SolverOut(code, run), u)
          /\ run' = [run EXCEPT !.code = code]
    /\ heap' = optimize_exit(heap, call.glob, call.loc)
    /\ pc' = "returned"
    /\ UNCHANGED <<method, impl, m_stopcr, m_dir, lastDirCall, frames, apilog,
                   ncalls, call, lastEval>>
    /\ UNCHANGED process
    /\ UNCHANGED caller

\* The caller takes the Result; the Optimizer is ready for the next call.
Collect ==
    /\ pc = "returned"
    /\ pc' = "idle"
    /\ apilog' = <<>>
    /\ call' = NoCall
    /\ run' = NoRun
    /\ lastEval' = <<>>
    /\ r' = NoResult
    /\ UNCHANGED <<method, impl, m_stopcr, m_dir, lastDirCall, heap, frames, ncalls>>
    /\ UNCHANGED process
    /\ UNCHANGED caller

\* Optimizer::seed(s): m_opt.seed(s), which is nlopt_srand(s)
seed ==
    /\ pc = "idle"
    /\ \E s \in SeedInputs : nlopt_rand' = nlopt_srand(s)
    /\ seeder' = "this"
    /\ UNCHANGED <<method, impl, pc, m_stopcr, m_dir, lastDirCall, heap, frames, ncalls>>
    /\ UNCHANGED perCall
    /\ UNCHANGED caller

\* seed(s) called on another Optimizer instance of the same process, between
\* or during the calls made on this one.
seed_other ==
    /\ pc \in {"idle", "running"}
    /\ \E s \in SeedInputs : nlopt_rand' = nlopt_srand(s)
    /\ seeder' = "other"
    /\ UNCHANGED <<method, impl, pc, m_stopcr, m_dir, lastDirCall, heap, frames, ncalls>>
    /\ UNCHANGED perCall
    /\ UNCHANGED caller

Next ==
    \/ Instantiate
    \/ to_min
    \/ to_max
    \/ set_criteria
    \/ OptimizeEnter
    \/ SolverEvaluate
    \/ AdapterCrash
    \/ OptimizeReturn
    \/ Collect

Spec == Init /\ [][Next]_vars

\* The caller changes its own StopCriteria object after it has passed it to
\* the constructor or to set_criteria.
caller_changes ==
    /\ pc \in {"idle", "running"}
    /\ caller_cr' \in CriteriaInputs \ {caller_cr}
    /\ UNCHANGED <<method, impl, pc, m_stopcr, m_dir, lastDirCall, heap, frames,
                   ncalls, stored>>
    /\ UNCHANGED perCall
    /\ UNCHANGED process

\* The Optimizer in a process where seed() is called, on it and on the other
\* Optimizer instances.
NextProcess ==
    \/ Next
    \/ seed
    \/ seed_other

SpecProcess == Init /\ [][NextProcess]_vars

\* The Optimizer with every operation of its interface, and a caller that
\* goes on using its own objects.
NextCaller ==
    \/ Next
    \/ seed
    \/ caller_changes

SpecCaller == Init /\ [][NextCaller]_vars

\* The state after construction with any StopCriteria, and optimize() up to
\* its call of the solver: what set_up makes of every StopCriteria value.
InitSetUp ==
    /\ method \in {NLoptOpt(M) : M \in Catalog}
    /\ impl = "nlopt"
    /\ pc = "idle"
    /\ m_stopcr \in AllStopCriteria
    /\ m_dir \in {"UNINIT", "MIN", "MAX"}
    /\ lastDirCall = (IF m_dir = "MIN" THEN "to_min"
                      ELSE IF m_dir = "MAX" THEN "to_max" ELSE "none")
    /\ heap = <<>>
    /\ frames = <<>>
    /\ apilog = <<>>
    /\ ncalls = 0
    /\ call = NoCall
    /\ run = NoRun
    /\ lastEval = <<>>
    /\ r = NoResult
    /\ nlopt_rand = <<>>
    /\ seeder = "none"
    /\ caller_cr = m_stopcr
    /\ stored = m_stopcr

SpecSetUp == InitSetUp /\ [][OptimizeEnter]_vars

\* ====================================================================
\* The claims
\* ====================================================================
Composed == call.loc # NullHandle
Owned == {call.glob, call.loc} \ {NullHandle}
Handles == DOMAIN heap
InCall == pc \in {"running", "returned"}

\* C1: for every dimension N and every array handed to the adapter, the
\* objective is invoked with exactly (p[0], ..., p[N-1]) in that order, only
\* the indices 0..N-1 are read, and the adapter returns the objective's score
\* for that argument list.
Claim_C1 ==
    lastEval # <<>> =>
        LET e == lastEval[1]
            N == call.N
        IN  /\ e.args = [i \in 1..N |-> e.params[i - 1]]
            /\ to_tuple_reads(N) \subseteq Idx(N)
            /\ e.score = func([i \in 1..N |-> e.params[i - 1]])

\* C2: every optimize() call acquires exactly one solver context (single
\* algorithm) or exactly two (composed); when the call has returned, by any of
\* the solver's termination codes, each of them has been released exactly
\* once; while a call runs, the contexts of every earlier call are released
\* and the run uses only contexts of its own call.
Thm_C2 ==
    /\ InCall =>
          /\ Cardinality({h \in Handles : heap[h].call = ncalls})
                = (IF method.m.t = "NLoptAlgComb" THEN 2 ELSE 1)
          /\ Owned = {h \in Handles : heap[h].call = ncalls}
    /\ pc = "running" =>
          /\ \A h \in Handles :
                IF heap[h].call = ncalls
                THEN heap[h].live /\ heap[h].destroyed = 0
                ELSE ~heap[h].live /\ heap[h].destroyed = 1
          /\ run.h \in Owned
          /\ heap[run.h].local_opt \in Owned \cup {NullHandle}
    /\ pc \in {"returned", "idle"} =>
          \A h \in Handles : ~heap[h].live /\ heap[h].destroyed = 1

\* C2 witness: the second optimize() of a composed Optimizer has returned
\* after a forced stop.
Wit_C2 ==
    /\ pc = "returned" /\ ncalls = 2 /\ Composed
    /\ r.resultcode = NLOPT_FORCED_STOP

\* C3: in every adapter invocation stop_condition is evaluated exactly once
\* and before the objective; if it returns true, the forced stop is requested
\* on the running solver context, the objective is still invoked and its score
\* returned, and the solver evaluates the objective no more after that.
Claim_C3 ==
    lastEval # <<>> =>
        LET e == lastEval[1]
        IN  /\ Len(SelectSeq(e.events, LAMBDA x : x = "stop_condition")) = 1
            /\ e.events[1] = "stop_condition"
            /\ e.events[Len(e.events)] = "func"
            /\ e.score = func(e.args)
            /\ e.stop => e.target = run.h
            /\ run.stopSeen # 0 => run.evals = run.stopSeen

\* The stop_condition that is false up to and including the first objective
\* evaluation and true from then on.
TrueAfterFirst == m_stopcr.m_stop_condition = 1

Translated(c, cr) ==
    /\ c.ftol_abs = (IF isnan(cr.m_abs_score_diff) THEN <<>> ELSE <<cr.m_abs_score_diff>>)
    /\ c.ftol_rel = (IF isnan(cr.m_rel_score_diff) THEN <<>> ELSE <<cr.m_rel_score_diff>>)
    /\ c.stopval = (IF isnan(cr.m_stop_score) THEN <<>> ELSE <<cr.m_stop_score>>)
    /\ c.maxeval = (IF cr.m_max_iterations > 0 THEN <<cr.m_max_iterations>> ELSE <<>>)

CallsOf(op, h) == Len(SelectSeq(apilog, LAMBDA e : e = <<op, h>>))

\* C5: set_up issues the configuration call of a criterion if and only if the
\* criterion is set: the three thresholds exactly when they are not NaN (zero
\* is set), max_iterations exactly when it is greater than 0; the call passes
\* the stored value, and an unset criterion leaves the solver's default.
Thm_C5 ==
    pc = "running" =>
        \A h \in Owned :
            /\ Translated(heap[h], m_stopcr)
            /\ CallsOf("nlopt_set_ftol_abs", h) = Len(heap[h].ftol_abs)
            /\ CallsOf("nlopt_set_ftol_rel", h) = Len(heap[h].ftol_rel)
            /\ CallsOf("nlopt_set_stopval", h) = Len(heap[h].stopval)
            /\ CallsOf("nlopt_set_maxeval", h) = Len(heap[h].maxeval)

\* C5 witness: a zero absolute threshold was translated while the unset
\* relative threshold and the zero iteration budget were not.
Wit_C5 ==
    /\ pc = "running"
    /\ m_stopcr.m_abs_score_diff = 0 /\ isnan(m_stopcr.m_rel_score_diff)
    /\ m_stopcr.m_max_iterations = 0 /\ ~isnan(m_stopcr.m_stop_score)
    /\ heap[call.glob].ftol_abs = <<0>> /\ heap[call.glob].ftol_rel = <<>>
    /\ heap[call.glob].maxeval = <<>>

\* C6: after a non-empty sequence of to_min()/to_max() calls the next
\* optimize() installs the adapter on each of its contexts once, as the
\* minimize objective if the last call was to_min() and as the maximize
\* objective if it was to_max(); and a to_min()/to_max() call changes nothing
\* but the stored direction.
Thm_C6 ==
    /\ [](pc = "running" =>
            \A h \in Owned :
                /\ lastDirCall = "to_min" =>
                      /\ heap[h].objective = "min" /\ heap[h].installs = 1
                      /\ CallsOf("nlopt_set_min_objective", h) = 1
                      /\ CallsOf("nlopt_set_max_objective", h) = 0
                /\ lastDirCall = "to_max" =>
                      /\ heap[h].objective = "max" /\ heap[h].installs = 1
                      /\ CallsOf("nlopt_set_max_objective", h) = 1
                      /\ CallsOf("nlopt_set_min_objective", h) = 0)
    /\ [][lastDirCall' # lastDirCall =>
            /\ m_dir' = (IF lastDirCall' = "to_min" THEN "MIN" ELSE "MAX")
            /\ UNCHANGED <<method, impl, pc, m_stopcr, heap, frames, apilog,
                           ncalls, call, run, lastEval, r, nlopt_rand, caller_cr,
                           stored>>]_vars

\* C6 witness: the second optimize() runs after to_max() was called last, on
\* an Optimizer whose first optimize() ran after to_min().
Wit_C6 ==
    /\ pc = "running" /\ ncalls = 2 /\ lastDirCall = "to_max" /\ Composed
    /\ heap[call.glob].objective = "max" /\ heap[call.loc].objective = "max"

\* The places in apilog of the set_up calls made on the context h.
SetUpOps ==
    {"nlopt_set_lower_bounds", "nlopt_set_upper_bounds", "nlopt_set_ftol_abs",
     "nlopt_set_ftol_rel", "nlopt_set_stopval", "nlopt_set_maxeval",
     "nlopt_set_min_objective", "nlopt_set_max_objective"}
SetUpAt(h) == {i \in DOMAIN apilog : apilog[i][1] \in SetUpOps /\ apilog[i][2] = h}
At(op, h) == {i \in DOMAIN apilog : apilog[i] = <<op, h>>}
RunsAt == {i \in DOMAIN apilog : apilog[i][1] = "nlopt_optimize"}

\* C7: in a composed optimize() both contexts are acquired first, then the
\* setup is applied to the global and then to the local context, then the
\* local context is registered as the local optimizer of the global one, and
\* then the run entry point is invoked once, on the global context and never
\* on the local one; the Result's resultcode, optimum and score are those the
\* global run reported.
Thm_C7 ==
    (InCall /\ Composed) =>
        LET g == call.glob
            l == call.loc
            link == At("nlopt_set_local_optimizer", g)
        IN  /\ apilog[1] = <<"nlopt_create", g>>
            /\ apilog[2] = <<"nlopt_create", l>>
            /\ At("nlopt_set_lower_bounds", g) # {} /\ At("nlopt_set_upper_bounds", g) # {}
            /\ At("nlopt_set_lower_bounds", l) # {} /\ At("nlopt_set_upper_bounds", l) # {}
            /\ \A i \in SetUpAt(g) : i > 2 /\ \A j \in SetUpAt(l) : i < j
            /\ Cardinality(link) = 1
            /\ \A j \in SetUpAt(l) : \A k \in link : j < k
            /\ pc = "running" => heap[g].local_opt = l
            /\ RunsAt = {Len(apilog)}
            /\ apilog[Len(apilog)] = <<"nlopt_optimize", g>>
            /\ \A k \in link : k = Len(apilog) - 1
            /\ run.h = g
            /\ pc = "returned" =>
                  /\ r.resultcode = run.code
                  /\ r.optimum = (IF run.best = <<>> THEN call.initvals
                                  ELSE run.best[1].x)
                  /\ run.best # <<>> => r.score = run.best[1].f

\* C7 witness: a composed optimize() has returned the success code of a
\* global run of two evaluations.
Wit_C7 ==
    /\ pc = "returned" /\ Composed
    /\ r.resultcode = NLOPT_SUCCESS /\ run.evals = 2

\* C8: every tag of the algorithm catalog, and so both presets, resolves to
\* the solver-backed Optimizer; only a tag with no registered binding resolves
\* to the generic Optimizer, whose construction is rejected.
Claim_C8 ==
    impl # "none" =>
        /\ method \in Catalog => impl = "nlopt" /\ pc # "rejected"
        /\ method \in {DefaultGlobalOptimizer, DefaultLocalOptimizer} => impl = "nlopt"
        /\ method = Unregistered => impl = "generic" /\ pc = "rejected"

\* A run ended by the external cancellation predicate: the adapter's forced
\* stop was requested on the running context.
EndedByPredicate == pc = "returned" /\ run.forced

\* C9 as stated: a run ended by the cancellation predicate returns a Result
\* whose resultcode is positive, not negative, and whose optimum and score are
\* the best point and score found before the stop.
Claim_C9 ==
    EndedByPredicate =>
        /\ r.resultcode > 0
        /\ r.optimum = run.best[1].x
        /\ r.score = run.best[1].f

\* C9 as amended: a run ended by the cancellation predicate returns normally
\* with the solver's forced-stop code, NLOPT_FORCED_STOP, which is negative,
\* passed on unchanged, and with the best point and score found before the
\* stop as optimum and score.
Thm_C9 ==
    EndedByPredicate =>
        /\ r.resultcode = NLOPT_FORCED_STOP
        /\ r.resultcode = run.code
        /\ r.resultcode < 0
        /\ run.best # <<>>
        /\ r.optimum = run.best[1].x
        /\ r.score = run.best[1].f
        /\ r.score_assigned

\* C9 witness: a run ended by the predicate whose best point is not the
\* initial point.
Wit_C9 ==
    /\ EndedByPredicate
    /\ r.optimum # call.initvals
    /\ run.evals = 2

ValidBounds == \A i \in Idx(call.N) : call.bounds[i].m_min <= call.bounds[i].m_max
Within(x) ==
    \A i \in Idx(call.N) :
        call.bounds[i].m_min <= x[i] /\ x[i] <= call.bounds[i].m_max

\* C10 as stated: for every optimize() call with a valid BoundSet the optimum
\* returned lies within the bounds in every dimension, on every exit path.
Claim_C10 ==
    (pc = "returned" /\ ValidBounds) => Within(r.optimum)

\* C10 as amended: for every optimize() call with a valid BoundSet and an
\* initial point within it, the optimum returned lies within the bounds in
\* every dimension, on every exit path: normal termination, forced stop and
\* solver-reported failure.
Thm_C10 ==
    (pc = "returned" /\ ValidBounds /\ Within(call.initvals)) => Within(r.optimum)

\* C10 witness: a run that failed after it had moved away from the initial
\* point, in two dimensions with different bounds.
Wit_C10 ==
    /\ pc = "returned" /\ ValidBounds /\ Within(call.initvals)
    /\ call.N = 2 /\ call.bounds[0] # call.bounds[1]
    /\ r.resultcode = NLOPT_FAILURE
    /\ r.optimum # call.initvals

\* The best point and score observed during the run, where it made an
\* evaluation.
BestReturned ==
    run.best # <<>> => r.optimum = run.best[1].x /\ r.score = run.best[1].f

\* C11: whenever optimize() returns, optimum and score of the Result hold
\* defined values equal to the best point and the best score observed during
\* the run, also when the run ends early or the solver reports a failure code;
\* score is never left unassigned.
Claim_C11 ==
    pc = "returned" =>
        /\ r.score_assigned
        /\ r.optimum # <<>>
        /\ BestReturned

\* C12: each optimize() call invokes the solver's run entry point exactly
\* once, on a context of its own, whatever termination code the run reports;
\* nothing is set up or run again while the run is under way or after it
\* ended, and the code the run reported is the resultcode of the Result,
\* unchanged.
Thm_C12 ==
    /\ [](InCall =>
            /\ Cardinality(RunsAt) = 1
            /\ apilog[Len(apilog)] = <<"nlopt_optimize", run.h>>
            /\ run.h \in Owned
            /\ pc = "returned" => r.resultcode = run.code)
    /\ [][pc = "running" =>
            /\ apilog' = apilog /\ run'.h = run.h /\ ncalls' = ncalls
            /\ pc' \in {"returned", "crashed"} \/ (pc' = "running" /\ r' = r)]_vars

\* C12 witness: the second optimize() call returned the failure code of a run
\* that had made an evaluation.
Wit_C12 ==
    /\ pc = "returned" /\ ncalls = 2 /\ ~Composed
    /\ r.resultcode = NLOPT_FAILURE /\ run.evals >= 1
    /\ Cardinality(RunsAt) = 1

\* C13: seed() called on one Optimizer instance changes no state that a run of
\* another, independent instance observes: no run of this Optimizer draws from
\* a generator state that seed() of another Optimizer set.
Claim_C13 ==
    (InCall /\ run.drew # <<>>) => run.drew[1].by # "other"

\* C14: get_criteria() returns the StopCriteria most recently stored by the
\* constructor or by set_criteria(), after any interleaving of set_criteria(),
\* to_min(), to_max(), seed() and optimize() calls; every optimize() translates
\* exactly the criteria stored when it was called and its adapter polls the
\* stored stop_condition, whatever the caller has since done to its own
\* StopCriteria object.
Thm_C14 ==
    /\ impl = "nlopt" => get_criteria(m_stopcr) = stored
    /\ pc = "running" => \A h \in Owned : Translated(heap[h], stored)
    /\ (InCall /\ lastEval # <<>>) =>
          lastEval[1].stop = stop_condition(stored, run.evals - 1)

\* C14 witness: the second optimize() runs with the criteria of the last
\* set_criteria() translated, after seed() and to_max(), while the caller's
\* own object has changed since.
Wit_C14 ==
    /\ pc = "running" /\ ncalls = 2 /\ run.evals = 1
    /\ seeder = "this" /\ lastDirCall = "to_max"
    /\ stored = StopCriteria(0, NaN, DBL_MAX, 0, 1)
    /\ caller_cr = StopCriteria(NaN, NaN, NaN, 1, 0)
    /\ heap[call.glob].ftol_abs = <<0>> /\ heap[call.glob].maxeval = <<1>>
    /\ get_criteria(m_stopcr) = stored

\* C15: a default-constructed Bound is the widest representable interval: its
\* min is the lowest representable value and its max the highest, so every
\* input value, zero and the negative ones included, lies within it; the
\* initial point of an optimize() call with default bounds is within them.
Claim_C15 ==
    (InCall /\ call.bounds = Uniform(call.N, DefaultBound)) =>
        /\ DefaultBound.m_min = MinVal
        /\ DefaultBound.m_max = DBL_MAX
        /\ \A v \in Val : DefaultBound.m_min <= v /\ v <= DefaultBound.m_max
        /\ Within(call.initvals)

\* The TData records created for the context h.
RecordsOf(h) == {f \in DOMAIN frames : frames[f].opt = h}

\* C16: the record the adapter receives on each callback is created once per
\* solver context and is alive at every adapter invocation between the start
\* and the end of the run: while a run is under way the data pointer installed
\* on each of its contexts points to a live record of that context, and the
\* adapter never dies on a dead one.
Claim_C16 ==
    /\ pc = "running" =>
          \A h \in Owned :
              /\ Cardinality(RecordsOf(h)) = 1
              /\ heap[h].objective # "none" =>
                    /\ heap[h].f_data \in RecordsOf(h)
                    /\ frames[heap[h].f_data].live
    /\ pc # "crashed"

\* The configuration set_up left on the context h: bounds, translated stop
\* criteria, direction, and the objective and binding of its record.
Configuration(h) ==
    [lb |-> heap[h].lb, ub |-> heap[h].ub,
     ftol_abs |-> heap[h].ftol_abs, ftol_rel |-> heap[h].ftol_rel,
     stopval |-> heap[h].stopval, maxeval |-> heap[h].maxeval,
     objective |-> heap[h].objective,
     fn |-> IF heap[h].f_data = 0 THEN "none" ELSE frames[heap[h].f_data].fn,
     self |-> IF heap[h].f_data = 0 THEN "none" ELSE frames[heap[h].f_data].self]

\* C17: in a composed optimize() the global and the local context receive the
\* same configuration (bounds, translated stop criteria, direction, objective,
\* cancellation predicate), and a cancellation predicate seen true during an
\* evaluation driven by either context leads to a forced-stop request on the
\* global context, which ends the global run.
Claim_C17 ==
    (InCall /\ Composed) =>
        /\ pc = "running" => Configuration(call.glob) = Configuration(call.loc)
        /\ (lastEval # <<>> /\ lastEval[1].stop) =>
              /\ lastEval[1].target = call.glob
              /\ run.forced
              /\ run.evals = run.forcedAt

\* C18: for every sequence of calls on a freshly constructed Optimizer, one
\* with no to_min()/to_max() before optimize() included, the direction is MIN
\* or MAX when optimize() runs, set_up has installed the adapter exactly once
\* on each context of the call, and the run is never started on a context
\* with no objective installed.
Claim_C18 ==
    pc = "running" =>
        /\ m_dir \in {"MIN", "MAX"}
        /\ \A h \in Owned :
              /\ heap[h].installs = 1
              /\ CallsOf("nlopt_set_min_objective", h)
                    + CallsOf("nlopt_set_max_objective", h) = 1
        /\ heap[run.h].objective # "none"

====
